---- MODULE Spec2Model ----
(***************************************************************************)
(* Model of railway-deployment/main.py: the module-level RAG state         *)
(* (embedder, index, documents, metadata, loading_error), the steps of     *)
(* initialize_simple_rag run by startup_event, and the request handlers    *)
(* health_check and retrieve_context (behind verify_api_key).              *)
(*                                                                         *)
(* Python values: an Optional is <<>> (None) or <<x>> (the value x); a     *)
(* str is a sequence of one-character strings; a float32 is a fixed-point  *)
(* integer with Scale units to 1.0.                                        *)
(***************************************************************************)
EXTENDS Integers, Sequences, FiniteSets, TLC

(* ------------------------------ bounds --------------------------------- *)
Scale == 10          \* fixed-point units per 1.0
MaxDocs == 2         \* corpora of every length up to MaxDocs are loaded
MaxK == 2            \* max_results ranges over -1..MaxK (and BigK, and None)

(* ------------------------- Python value helpers ------------------------ *)
None == <<>>
Some(x) == <<x>>
Val(o) == o[1]

Min(a, b) == IF a < b THEN a ELSE b

\* the category appended as it was sent
ReplaceUnderscore_Omitted(s) == s

\* str.replace('_', ' ')
RECURSIVE ReplaceUnderscore(_)
ReplaceUnderscore(s) ==
    IF s = <<>> THEN <<>>
    ELSE <<IF Head(s) = "_" THEN " " ELSE Head(s)>> \o ReplaceUnderscore(Tail(s))

General == <<"g", "e", "n", "e", "r", "a", "l">>

(* --------------------------- vectors and FAISS ------------------------- *)
RECURSIVE Count(_, _)
Count(s, c) ==
    IF s = <<>> THEN 0
    ELSE (IF Head(s) = c THEN 1 ELSE 0) + Count(Tail(s), c)

\* SentenceTransformer.encode on one text: a deterministic map from a text
\* to a vector of fixed dimension 2 (how often "a" and "b" occur).
Encode(text) == <<Count(text, "a"), Count(text, "b")>>

Dot(u, v) == u[1] * v[1] + u[2] * v[2]

RECURSIVE ISqrtFrom(_, _)
ISqrtFrom(n, r) == IF (r + 1) * (r + 1) > n THEN r ELSE ISqrtFrom(n, r + 1)
ISqrt(n) == ISqrtFrom(n, 0)

\* faiss.normalize_L2 on one row: v / ||v||, a zero row is left as it is.
NormalizeL2(v) ==
    LET nr == Dot(v, v)
        norm == ISqrt(nr * Scale * Scale)
    IN  IF nr = 0 THEN v
        ELSE <<(v[1] * Scale * Scale) \div norm, (v[2] * Scale * Scale) \div norm>>

\* the score IndexFlatIP.search fills in where it has no vector left
NegInf == 0 - (Scale * Scale * Scale)

Score(xb, q, i) == Dot(q, xb[i])

\* a selection that does not compare scores
ArgMax_Unordered(xb, q, rest) == rest

ArgMax(xb, q, rest) == {i \in rest : \A j \in rest : Score(xb, q, i) >= Score(xb, q, j)}

\* The best m of the vectors in rest, best first.  FAISS fixes no order
\* among equal scores, so every order of a tie is a possible outcome.
RECURSIVE Select(_, _, _, _)
Select(xb, q, rest, m) ==
    IF m = 0 THEN {<<>>}
    ELSE UNION {{<<[score |-> Score(xb, q, i), idx |-> i - 1]>> \o t :
                     t \in Select(xb, q, rest \ {i}, m - 1)} :
                i \in ArgMax(xb, q, rest)}

Pad(n) == [i \in 1..n |-> [score |-> NegInf, idx |-> 0 - 1]]

\* IndexFlatIP.search(q, k) for k > 0: k hits, the last ones padded with
\* label -1 when fewer than k vectors are stored.
Search(xb, q, k) ==
    LET m == Min(k, Len(xb))
    IN  {h \o Pad(k - m) : h \in Select(xb, q, 1..Len(xb), m)}

(* ------------------------------- inputs -------------------------------- *)
DocTexts == {<<"a">>, <<"b">>, <<"a", "b">>}

Doc(t) == [content |-> t]

RECURSIVE SeqsOf(_, _)
SeqsOf(S, n) ==
    IF n = 0 THEN {<<>>}
    ELSE LET shorter == SeqsOf(S, n - 1)
         IN  shorter \cup {Append(s, x) : s \in {t \in shorter : Len(t) = n - 1}, x \in S}

\* three documents whose unit vectors are [1,0], [0,1] and [0.7,0.7]
ExampleCorpus == <<Doc(<<"a">>), Doc(<<"b">>), Doc(<<"a", "b">>)>>

\* more documents than the default max_results
LargeCorpus ==
    <<Doc(<<"a">>), Doc(<<"b">>), Doc(<<"a", "b">>), Doc(<<"a", "a", "b">>),
      Doc(<<"a", "b", "b">>), Doc(<<"a", "a", "a", "b">>)>>

Corpora == SeqsOf({Doc(t) : t \in DocTexts}, MaxDocs) \cup {ExampleCorpus, LargeCorpus}

DefaultMaxResults == 5

\* a max_results larger than every corpus
BigK == Len(LargeCorpus) + 1

Queries == {<<"a">>, <<"b", "_">>}
Countries == {None, Some(<<>>), Some(<<"b">>)}
Categories == {None, Some(<<>>), Some(General), Some(<<"a", "_", "b">>)}
MaxResultsValues == {None} \cup {Some(n) : n \in (0 - 1)..MaxK} \cup {Some(BigK)}

RAGQuery == [query : Queries, country : Countries, category : Categories,
             max_results : MaxResultsValues]

NoRequest == [query |-> <<>>, country |-> None, category |-> None, max_results |-> None]

(* ------------------------------- state --------------------------------- *)
VARIABLES
    corpus,          \* what get_emigration_documents returns
    pc,              \* position of startup_event in initialize_simple_rag
    embedder, index, documents, metadata, loading_error,   \* the globals
    doc_embeddings,  \* local of initialize_simple_rag
    req,             \* the request last handled
    resp,            \* its response
    encoded,         \* the texts that request passed to embedder.encode
    searched         \* whether that request called index.search

globals == <<embedder, index, documents, metadata, loading_error>>
request == <<req, resp, encoded, searched>>
vars == <<corpus, pc, embedder, index, documents, metadata, loading_error,
          doc_embeddings, req, resp, encoded, searched>>

NoResponse ==
    [op |-> "none", code |-> 0, status |-> "", results |-> <<>>, query |-> <<>>,
     total_results |-> 0, documents_indexed |-> 0, detail |-> None]

Init ==
    /\ corpus \in Corpora
    /\ pc = "startup"
    /\ embedder = None
    /\ index = None
    /\ documents = <<>>
    /\ metadata = <<>>
    /\ loading_error = None
    /\ doc_embeddings = <<>>
    /\ req = NoRequest
    /\ resp = NoResponse
    /\ encoded = <<>>
    /\ searched = FALSE

(* ----------------------- initialize_simple_rag ------------------------- *)
get_emigration_documents == corpus

\* embedder = SentenceTransformer(MODEL_NAME)
LoadModel ==
    /\ pc = "startup"
    /\ embedder' = Some("SentenceTransformer")
    /\ pc' = "documents"
    /\ UNCHANGED <<corpus, index, documents, metadata, loading_error, doc_embeddings, request>>

\* documents = get_emigration_documents()
LoadDocuments ==
    /\ pc = "documents"
    /\ documents' = get_emigration_documents
    /\ pc' = "encode"
    /\ UNCHANGED <<corpus, embedder, index, metadata, loading_error, doc_embeddings, request>>

\* doc_embeddings = embedder.encode([doc["content"] for doc in documents])
EncodeDocuments ==
    /\ pc = "encode"
    /\ doc_embeddings' = [i \in 1..Len(documents) |-> Encode(documents[i].content)]
    /\ pc' = "index"
    /\ UNCHANGED <<corpus, globals, request>>

\* dimension = doc_embeddings.shape[1]; index = faiss.IndexFlatIP(dimension)
\* encode([]) is an array of shape (0,), whose shape[1] raises IndexError.
CreateIndex ==
    /\ pc = "index"
    /\ IF doc_embeddings = <<>>
       THEN /\ loading_error' = Some("tuple index out of range")
            /\ pc' = "done"
            /\ UNCHANGED index
       ELSE /\ index' = Some([d |-> 2, xb |-> <<>>])
            /\ pc' = "normalize"
            /\ UNCHANGED loading_error
    /\ UNCHANGED <<corpus, embedder, documents, metadata, doc_embeddings, request>>

\* faiss.normalize_L2(doc_embeddings)
NormalizeEmbeddings ==
    /\ pc = "normalize"
    /\ doc_embeddings' = [i \in 1..Len(doc_embeddings) |-> NormalizeL2(doc_embeddings[i])]
    /\ pc' = "add"
    /\ UNCHANGED <<corpus, globals, request>>

\* index.add(doc_embeddings.astype('float32'))
IndexAdd ==
    /\ pc = "add"
    /\ index' = Some([Val(index) EXCEPT !.xb = @ \o doc_embeddings])
    /\ pc' = "metadata"
    /\ UNCHANGED <<corpus, embedder, documents, metadata, loading_error, doc_embeddings, request>>

\* metadata = [doc for doc in documents]
StoreMetadata ==
    /\ pc = "metadata"
    /\ metadata' = documents
    /\ pc' = "done"
    /\ UNCHANGED <<corpus, embedder, index, documents, loading_error, doc_embeddings, request>>

\* the calls of the try block that can raise, by the position they run at
RaisingSteps == {"startup", "encode", "index", "normalize", "add"}

\* except Exception as e: loading_error = str(e)
InitializationFails ==
    /\ pc \in RaisingSteps
    /\ loading_error' = Some(pc)
    /\ pc' = "done"
    /\ UNCHANGED <<corpus, embedder, index, documents, metadata, doc_embeddings, request>>

(* ------------------------------ handlers ------------------------------- *)
Response(op, code) == [NoResponse EXCEPT !.op = op, !.code = code]

\* the server accepts requests once startup_event has returned
Serving == pc = "done"

\* verify_api_key raises 401; retrieve_context is not called
Unauthorized ==
    /\ Serving
    /\ req' = NoRequest
    /\ resp' = Response("auth", 401)
    /\ encoded' = <<>>
    /\ searched' = FALSE
    /\ UNCHANGED <<corpus, pc, globals, doc_embeddings>>

Healthy == embedder # None /\ index # None

health_check ==
    /\ Serving
    /\ req' = NoRequest
    /\ resp' = [Response("health", 200) EXCEPT
                  !.status = IF Healthy THEN "healthy" ELSE "unhealthy",
                  !.detail = IF Healthy THEN None ELSE loading_error,
                  !.documents_indexed = Len(documents)]
    /\ encoded' = <<>>
    /\ searched' = FALSE
    /\ UNCHANGED <<corpus, pc, globals, doc_embeddings>>

\* a readiness check that forgets the index
NotReady_EmbedderOnly == embedder = None

\* if not embedder or not index
NotReady == embedder = None \/ index = None

\* the "Enhance query" block
EnhanceQuery(r) ==
    LET q1 == IF r.country # None /\ Val(r.country) # <<>>
              THEN r.query \o <<" ">> \o Val(r.country)
              ELSE r.query
    IN  IF r.category # None /\ Val(r.category) # <<>> /\ Val(r.category) # General
        THEN q1 \o <<" ">> \o ReplaceUnderscore(Val(r.category))
        ELSE q1

\* request.max_results or 5
MaxResultsOrDefault(mr) == IF mr = None \/ Val(mr) = 0 THEN DefaultMaxResults ELSE Val(mr)

\* k taken from the request without the min
ClampK_Unclamped(mr, n) == MaxResultsOrDefault(mr)

\* k = min(request.max_results or 5, len(documents))
ClampK(mr, n) == Min(MaxResultsOrDefault(mr), n)

\* metadata[idx], a negative idx counting from the end
PyIndex(s, idx) == IF idx >= 0 THEN s[idx + 1] ELSE s[Len(s) + idx + 1]

\* metadata[idx] raises IndexError: the loop reads it whenever idx < len(metadata)
IndexError(hits, md) ==
    \E i \in 1..Len(hits) : hits[i].idx < Len(md) /\ hits[i].idx + Len(md) < 0

\* the "Format results" loop
RECURSIVE FormatFrom(_, _, _)
FormatFrom(hits, i, md) ==
    IF i > Len(hits) THEN <<>>
    ELSE (IF hits[i].idx < Len(md)
          THEN <<[content |-> PyIndex(md, hits[i].idx).content,
                  relevance_score |-> hits[i].score,
                  rank |-> i,
                  document_index |-> hits[i].idx]>>
          ELSE <<>>) \o FormatFrom(hits, i + 1, md)

FormatResults(hits) == FormatFrom(hits, 1, metadata)

retrieve_context ==
    /\ Serving
    /\ \E r \in RAGQuery :
        /\ req' = r
        /\ IF NotReady
           THEN /\ resp' = [Response("retrieve", 503) EXCEPT !.detail = loading_error]
                /\ encoded' = <<>>
                /\ searched' = FALSE
           ELSE LET enhanced_query == EnhanceQuery(r)
                    query_embedding == NormalizeL2(Encode(enhanced_query))
                    k == ClampK(r.max_results, Len(documents))
                IN  /\ encoded' = <<enhanced_query>>
                    /\ searched' = (index # None)
                    /\ IF index = None \/ k <= 0
                       THEN \* index.search raises; except Exception: 500
                            resp' = Response("retrieve", 500)
                       ELSE \E hits \in Search(Val(index).xb, query_embedding, k) :
                              IF IndexError(hits, metadata)
                              THEN resp' = Response("retrieve", 500)
                              ELSE LET results == FormatResults(hits)
                                   IN  resp' = [Response("retrieve", 200) EXCEPT
                                                  !.results = results,
                                                  !.query = r.query,
                                                  !.total_results = Len(results)]
    /\ UNCHANGED <<corpus, pc, globals, doc_embeddings>>

Next ==
    \/ LoadModel
    \/ LoadDocuments
    \/ EncodeDocuments
    \/ CreateIndex
    \/ NormalizeEmbeddings
    \/ IndexAdd
    \/ StoreMetadata
    \/ InitializationFails
    \/ Unauthorized
    \/ health_check
    \/ retrieve_context

Spec == Init /\ [][Next]_vars

(* ------------------------------ properties ----------------------------- *)
Retrieved == resp.op = "retrieve"
Probed == resp.op = "health"

\* initialize_simple_rag ran to its last line without raising
InitSucceeded == pc = "done" /\ loading_error = None

NTotal == IF index = None THEN 0 ELSE Len(Val(index).xb)

\* the bulk index.add and the metadata assignment have both completed
Populated == index # None /\ corpus # <<>> /\ Len(Val(index).xb) = Len(corpus) /\ metadata = corpus

\* C1: after initialize_simple_rag has returned, either it failed and the
\* globals hold their pre-init values (embedder None, index None, documents
\* and metadata empty) with loading_error set, or it succeeded and embedder,
\* index, documents and metadata are all populated with loading_error None.
C1_AllOrNothing ==
    pc = "done" =>
        \/ /\ loading_error # None
           /\ embedder = None /\ index = None /\ documents = <<>> /\ metadata = <<>>
        \/ /\ loading_error = None
           /\ embedder # None /\ index # None
           /\ documents = corpus /\ metadata = corpus /\ NTotal = Len(corpus)

\* C2: a retrieve_context call made while embedder or index is absent ends
\* in 503, embeds nothing, searches nothing and returns no results.
C2_NotReadyIs503 ==
    (Retrieved /\ (embedder = None \/ index = None)) =>
        /\ resp.code = 503
        /\ encoded = <<>>
        /\ ~searched
        /\ resp.results = <<>> /\ resp.total_results = 0

C2_Witness ==
    Retrieved /\ embedder # None /\ index = None /\ resp.code = 503 /\ req.query # <<>>

\* C3: a query or readiness probe answered before the bulk index.add and
\* the metadata assignment have completed sees the not-ready state (503,
\* unhealthy) and never searches an index that exists but is not populated.
C3_NotReadyUntilPopulated ==
    ~Populated =>
        /\ Retrieved => (resp.code = 503 /\ ~searched)
        /\ Probed => resp.status = "unhealthy"

\* C4: once loading_error is set, initialization is over for good, every
\* health_check reports "unhealthy" and every retrieve_context call ends in
\* 503, never in 200 and never in 500.
C4_FailureIsPermanent ==
    loading_error # None =>
        /\ pc = "done"
        /\ Probed => resp.status = "unhealthy"
        /\ Retrieved => resp.code = 503

\* C5: after a successful initialization over N documents, retrieve_context
\* with a positive max_results returns exactly min(max_results, N) results,
\* and with max_results omitted exactly min(5, N); total_results is that
\* number and the call does not fail.
C5_Wanted == IF req.max_results = None THEN 5 ELSE Val(req.max_results)

C5_ResultCount ==
    (InitSucceeded /\ Retrieved /\ (req.max_results = None \/ Val(req.max_results) > 0)) =>
        /\ resp.code = 200
        /\ Len(resp.results) = (IF C5_Wanted <= Len(corpus) THEN C5_Wanted ELSE Len(corpus))
        /\ resp.total_results = Len(resp.results)

C5_Witness ==
    /\ InitSucceeded /\ Retrieved
    /\ req.max_results # None /\ Val(req.max_results) > Len(documents)
    /\ resp.code = 200 /\ resp.total_results = Len(documents) /\ Len(documents) > 1

\* the inner product of the normalized query with the normalized embedding
\* of document number d (0-based), computed from the corpus itself
C6_BruteForce(d) ==
    Dot(NormalizeL2(Encode(encoded[1])), NormalizeL2(Encode(corpus[d + 1].content)))

C6_Returned == {resp.results[i].document_index : i \in 1..Len(resp.results)}

C6_Ranked ==
    /\ \A i \in 1..Len(resp.results) :
          /\ resp.results[i].rank = i
          /\ resp.results[i].document_index \in 0..(Len(corpus) - 1)
          /\ resp.results[i].relevance_score = C6_BruteForce(resp.results[i].document_index)
          /\ resp.results[i].content = corpus[resp.results[i].document_index + 1].content
    /\ \A i, j \in 1..Len(resp.results) :
          i < j => /\ resp.results[i].relevance_score >= resp.results[j].relevance_score
                   /\ resp.results[i].document_index # resp.results[j].document_index

\* C6 (as claimed): the results of a successful retrieve_context are in
\* non-increasing score order with ranks 1..n, they are the true top-k by
\* inner product, and equal scores are ordered, and chosen, by ascending
\* document_index.
C6_TopKAscendingTies ==
    (Retrieved /\ resp.code = 200) =>
        /\ C6_Ranked
        /\ \A i, j \in 1..Len(resp.results) :
              (i < j /\ resp.results[i].relevance_score = resp.results[j].relevance_score)
                  => resp.results[i].document_index < resp.results[j].document_index
        /\ \A d \in C6_Returned : \A e \in (0..(Len(corpus) - 1)) \ C6_Returned :
              \/ C6_BruteForce(d) > C6_BruteForce(e)
              \/ C6_BruteForce(d) = C6_BruteForce(e) /\ d < e

\* C6 (amended): the results of a successful retrieve_context are in
\* non-increasing score order with ranks 1..n and distinct documents, each
\* score is the inner product of the normalized query with that document's
\* normalized vector, and no document left out scores higher than one
\* returned; the order among equal scores is not fixed.
C6_TopK ==
    (Retrieved /\ resp.code = 200) =>
        /\ C6_Ranked
        /\ \A d \in C6_Returned : \A e \in (0..(Len(corpus) - 1)) \ C6_Returned :
              C6_BruteForce(d) >= C6_BruteForce(e)

C6_Witness ==
    /\ Retrieved /\ resp.code = 200
    /\ corpus = ExampleCorpus
    /\ encoded = << <<"a">> >>
    /\ req.max_results = Some(2)
    /\ Len(resp.results) = 2
    /\ resp.results[1].document_index = 0 /\ resp.results[1].relevance_score = Scale * Scale
    /\ resp.results[2].document_index = 2

\* C7: after a successful initialization, retrieve_context with
\* max_results <= 0 fails and returns no result list.
C7_NonPositiveKFails ==
    (InitSucceeded /\ Retrieved /\ req.max_results # None /\ Val(req.max_results) <= 0) =>
        /\ resp.code # 200
        /\ resp.results = <<>>

\* C8: when get_emigration_documents yields no documents and nothing else
\* goes wrong, startup returns and every retrieve_context call fails with
\* an error of its own: not 503, not 500, not a 200 with an empty list.
C8_EmptyCorpusError ==
    (corpus = <<>> /\ pc = "done" /\ loading_error \in {None, Some("tuple index out of range")}
       /\ Retrieved) =>
        resp.code \notin {200, 500, 503}

\* C9: every request that gets past the readiness check embeds exactly one
\* string: the query, then " " and the country if a non-empty country is
\* given, then " " and the category with each underscore turned into a
\* space if a non-empty category other than "general" is given; a
\* successful response carries the query as it was sent.
C9_Given(o) == o # None /\ Val(o) # <<>>

C9_Spaced(c) == [i \in 1..Len(c) |-> IF c[i] = "_" THEN " " ELSE c[i]]

C9_Expected(r) ==
    r.query
      \o (IF C9_Given(r.country) THEN <<" ">> \o Val(r.country) ELSE <<>>)
      \o (IF C9_Given(r.category) /\ Val(r.category) # General
          THEN <<" ">> \o C9_Spaced(Val(r.category)) ELSE <<>>)

C9_EnhancedQuery ==
    (Retrieved /\ resp.code # 503) =>
        /\ Len(encoded) = 1
        /\ encoded[1] = C9_Expected(req)
        /\ resp.code = 200 => resp.query = req.query

C9_Witness ==
    /\ Retrieved /\ resp.code = 200
    /\ req.query = <<"b", "_">>
    /\ req.country = Some(<<"b">>)
    /\ req.category = Some(<<"a", "_", "b">>)
    /\ encoded = << <<"b", "_", " ", "b", " ", "a", " ", "b">> >>
    /\ resp.query = <<"b", "_">>

\* C10: in every state the corpus store, the similarity index and metadata
\* have the same length, and position i of each is the same document.
C10_IndexAlignment ==
    /\ Len(documents) = NTotal
    /\ Len(documents) = Len(metadata)
    /\ \A i \in 1..Len(documents) :
          /\ metadata[i] = documents[i]
          /\ Val(index).xb[i] = NormalizeL2(Encode(documents[i].content))

====
